---- MODULE Spec2Model ----
(***************************************************************************)
(* Model of sgx_backtrace/src/symbolize/mod.rs: the address adjustment     *)
(* adjust_ip, the lock-guarded entry points resolve / resolve_frame /      *)
(* clear_symbol_cache with their unsynchronized variants, and SymbolName   *)
(* with its lossy chunked rendering format_symbol_name.                    *)
(*                                                                         *)
(* Three state machines share the module:                                  *)
(*   SpecAdjust  applies adjust_ip to every address of a WordBits machine  *)
(*   SpecRender  builds a SymbolName over a byte string and renders it     *)
(*   SpecGate    threads calling the resolve API around the global lock    *)
(*   FairGate    SpecGate with the fairness of running threads             *)
(***************************************************************************)
EXTENDS Integers, Sequences, FiniteSets, TLC

\* ------------------------------------------------------------------ bounds
WordBits == 6          \* width of usize in the model
MaxApply == 2          \* adjust_ip applications per SpecAdjust behaviour
MaxLen == 4            \* longest symbol name, in bytes
NumThreads == 2        \* caller threads
MaxAddr == 2           \* largest address a caller passes to resolve

VARIABLES
    \* SpecAdjust
    addr,        \* the address given to adjust_ip
    adjusted,    \* successive results of adjust_ip
    \* SpecRender
    rpc,         \* position: "new", "ready", "loop", "done", "off"
    input,       \* the bytes SymbolName::new was given
    name,        \* the SymbolName: [bytes, demangled]
    kind,        \* "Display" or "Debug"
    sinkOk,      \* whether writes to the formatter succeed
    bytes,       \* format_symbol_name's `bytes` (the remaining slice)
    out,         \* the characters written to the formatter
    iters,       \* iterations of format_symbol_name's loop so far
    result,      \* fmt::Result of the rendering: "Ok", "Err" or "none"
    strres,      \* None until as_str is called, then Some(its result)
    \* SpecGate
    gate,        \* holder of crate::lock's mutex, or NoThread
    aborted,     \* the process was aborted
    outer,       \* outer[t]: t holds the gate on behalf of an outer operation
    guard,       \* guard[t]: t's current call owns a live `_guard`
    pc,          \* pc[t]: position of thread t
    op,          \* op[t]: the entry point of t's current / last call
    target,      \* target[t]: the address or frame the caller passed
    what,        \* what[t]: the ResolveWhat handed to resolve_imp
    calls,       \* calls[t]: resolve_imp invocations in the current call
    emitted,     \* emitted[t]: records the backend has produced
    observed,    \* observed[t]: records the callback has been given
    lastExit     \* how the most recent call ended: "none", "returned", "unwound"

adjVars == <<addr, adjusted>>
renVars == <<rpc, input, name, kind, sinkOk, bytes, out, iters, result, strres>>
gateVars == <<gate, aborted, outer, guard, pc, op, target, what, calls, emitted, observed, lastExit>>
vars == <<addr, adjusted, rpc, input, name, kind, sinkOk, bytes, out, iters, result, strres,
          gate, aborted, outer, guard, pc, op, target, what, calls, emitted, observed, lastExit>>

\* ------------------------------------------------------- adjust_ip
Null == 0
Address == 0 .. (2 ^ WordBits - 1)

\* adjust_ip without the null test: the subtraction wraps
adjust_ip_unguarded(a) == (a - 1) % (2 ^ WordBits)

adjust_ip(a) == IF a = Null THEN a ELSE (a - 1) % (2 ^ WordBits)

\* ------------------------------------------------------- str::from_utf8
Replacement == 65533          \* U+FFFD
Quote == 34                   \* '"'
NoLen == 0                    \* error_len() == None

IsCont(b) == b >= 128 /\ b <= 191

utf8_char_width(b) ==
    IF b < 128 THEN 1
    ELSE IF b >= 194 /\ b <= 223 THEN 2
    ELSE IF b >= 224 /\ b <= 239 THEN 3
    ELSE IF b >= 240 /\ b <= 244 THEN 4
    ELSE 0

\* second byte of a three-byte sequence
Second3(first, b) ==
    \/ first = 224 /\ b >= 160 /\ b <= 191
    \/ first >= 225 /\ first <= 236 /\ IsCont(b)
    \/ first = 237 /\ b >= 128 /\ b <= 159
    \/ first >= 238 /\ first <= 239 /\ IsCont(b)

\* second byte of a four-byte sequence
Second4(first, b) ==
    \/ first = 240 /\ b >= 144 /\ b <= 191
    \/ first >= 241 /\ first <= 243 /\ IsCont(b)
    \/ first = 244 /\ b >= 128 /\ b <= 143

Utf8Error(upto, len) == [ok |-> FALSE, valid_up_to |-> upto, error_len |-> len]

RECURSIVE run_utf8_validation(_, _)
run_utf8_validation(v, i) ==
    IF i > Len(v) THEN [ok |-> TRUE, valid_up_to |-> Len(v), error_len |-> NoLen]
    ELSE LET first == v[i]
             w == utf8_char_width(first)
             n == Len(v)
         IN  IF w = 1 THEN run_utf8_validation(v, i + 1)
             ELSE IF w = 2 THEN
                 IF i + 1 > n THEN Utf8Error(i - 1, NoLen)
                 ELSE IF ~IsCont(v[i + 1]) THEN Utf8Error(i - 1, 1)
                 ELSE run_utf8_validation(v, i + 2)
             ELSE IF w = 3 THEN
                 IF i + 1 > n THEN Utf8Error(i - 1, NoLen)
                 ELSE IF ~Second3(first, v[i + 1]) THEN Utf8Error(i - 1, 1)
                 ELSE IF i + 2 > n THEN Utf8Error(i - 1, NoLen)
                 ELSE IF ~IsCont(v[i + 2]) THEN Utf8Error(i - 1, 2)
                 ELSE run_utf8_validation(v, i + 3)
             ELSE IF w = 4 THEN
                 IF i + 1 > n THEN Utf8Error(i - 1, NoLen)
                 ELSE IF ~Second4(first, v[i + 1]) THEN Utf8Error(i - 1, 1)
                 ELSE IF i + 2 > n THEN Utf8Error(i - 1, NoLen)
                 ELSE IF ~IsCont(v[i + 2]) THEN Utf8Error(i - 1, 2)
                 ELSE IF i + 3 > n THEN Utf8Error(i - 1, NoLen)
                 ELSE IF ~IsCont(v[i + 3]) THEN Utf8Error(i - 1, 3)
                 ELSE run_utf8_validation(v, i + 4)
             ELSE Utf8Error(i - 1, 1)

from_utf8(v) == run_utf8_validation(v, 1)

\* the characters (code points) of a valid UTF-8 byte string
RECURSIVE Chars(_)
Chars(v) ==
    IF v = <<>> THEN <<>>
    ELSE LET w == utf8_char_width(v[1])
             c == IF w = 1 THEN v[1]
                  ELSE IF w = 2 THEN (v[1] % 32) * 64 + (v[2] % 64)
                  ELSE IF w = 3 THEN (v[1] % 16) * 4096 + (v[2] % 64) * 64 + (v[3] % 64)
                  ELSE (v[1] % 8) * 262144 + (v[2] % 64) * 4096 + (v[3] % 64) * 64 + (v[4] % 64)
         IN  <<c>> \o Chars(SubSeq(v, w + 1, Len(v)))

\* <str as Display>::fmt and <str as Debug>::fmt on a plain formatter
DisplayFmt(s) == s
DebugFmt(s) == <<Quote>> \o s \o <<Quote>>
Fmt(k, s) == IF k = "Display" THEN DisplayFmt(s) ELSE DebugFmt(s)

\* ------------------------------------------------------- SymbolName
None == <<>>                  \* Option::None; Some(x) is <<x>>
Some(x) == <<x>>
NoName == [bytes |-> <<>>, demangled |-> None]
Underscore == 95
Alphabet == {97, Underscore, 255, 195, 226, 130}

RECURSIVE SeqsUpTo(_, _)
SeqsUpTo(S, n) ==
    IF n = 0 THEN {<<>>}
    ELSE LET shorter == SeqsUpTo(S, n - 1)
         IN  shorter \cup {Append(s, x) : s \in {q \in shorter : Len(q) = n - 1}, x \in S}

ByteStrings == SeqsUpTo(Alphabet, MaxLen)

\* sgx_demangle::try_demangle: a name is mangled when it carries the
\* mangling prefix; the demangled form renders as the text after it
try_demangle(s) ==
    IF Len(s) >= 2 /\ s[1] = Underscore /\ s[2] = Underscore
    THEN Some([original |-> s, text |-> Chars(SubSeq(s, 3, Len(s)))])
    ELSE None

\* SymbolName::new that keeps the lossy text instead of the raw bytes
SymbolName_new_lossy(b) ==
    LET r == from_utf8(b)
    IN  [bytes |-> SubSeq(b, 1, r.valid_up_to),
         demangled |-> IF r.ok THEN try_demangle(b) ELSE None]

SymbolName_new(b) ==
    LET r == from_utf8(b)
    IN  [bytes |-> b,
         demangled |-> IF r.ok THEN try_demangle(b) ELSE None]

as_str(n) ==
    IF n.demangled # None THEN Some(n.demangled[1].original)
    ELSE IF from_utf8(n.bytes).ok THEN Some(n.bytes) ELSE None

as_bytes(n) == n.bytes

\* continuing after the valid prefix only, the invalid run left in place
Advance_prefix_only(b, err) == SubSeq(b, err.valid_up_to + 1, Len(b))

\* continuing one byte too far
Advance_one_more(b, err) == SubSeq(b, err.valid_up_to + err.error_len + 2, Len(b))

\* the slice format_symbol_name continues with after a decoding error
Advance(b, err) == SubSeq(b, err.valid_up_to + err.error_len + 1, Len(b))

AdjustIdle == addr = Null /\ adjusted = <<>>
RenderIdle ==
    /\ rpc = "off" /\ input = <<>> /\ name = NoName /\ kind = "Display"
    /\ sinkOk = TRUE
    /\ bytes = <<>> /\ out = <<>> /\ iters = 0 /\ result = "none" /\ strres = None

\* ------------------------------------------------------- SpecRender
New ==
    /\ rpc = "new"
    /\ name' = SymbolName_new(input)
    /\ rpc' = "ready"
    /\ UNCHANGED <<input, kind, sinkOk, bytes, out, iters, result, strres>>

AsStr ==
    /\ rpc = "ready"
    /\ strres = None
    /\ strres' = Some(as_str(name))
    /\ UNCHANGED <<rpc, input, name, kind, sinkOk, bytes, out, iters, result>>

\* Display::fmt / Debug::fmt of SymbolName up to the call of format_symbol_name
FmtEnter ==
    /\ rpc = "ready"
    /\ IF name.demangled # None
       THEN /\ out' = IF sinkOk THEN name.demangled[1].text ELSE out
            /\ result' = IF sinkOk THEN "Ok" ELSE "Err"
            /\ rpc' = "done"
            /\ bytes' = bytes
       ELSE /\ bytes' = name.bytes
            /\ rpc' = "loop"
            /\ UNCHANGED <<out, result>>
    /\ UNCHANGED <<input, name, kind, sinkOk, iters, strres>>

\* one pass through the body of `while bytes.len() > 0`
LoopBody ==
    /\ rpc = "loop"
    /\ Len(bytes) > 0
    /\ LET r == from_utf8(bytes)
       IN  IF ~sinkOk
           THEN \* fmt(..)? returns the formatter's error
                /\ result' = "Err"
                /\ rpc' = "done"
                /\ UNCHANGED <<out, bytes>>
           ELSE IF r.ok
           THEN /\ out' = out \o Fmt(kind, Chars(bytes))
                /\ rpc' = "exit"
                /\ UNCHANGED <<bytes, result>>
           ELSE /\ out' = out \o Fmt(kind, <<Replacement>>)
                /\ IF r.error_len # NoLen
                   THEN bytes' = Advance(bytes, r) /\ rpc' = "loop"
                   ELSE bytes' = bytes /\ rpc' = "exit"
                /\ UNCHANGED result
    /\ iters' = iters + 1
    /\ UNCHANGED <<input, name, kind, sinkOk, strres>>

\* the loop is left (condition false, or break) and Ok(()) is returned
LoopExit ==
    /\ \/ rpc = "loop" /\ Len(bytes) = 0
       \/ rpc = "exit"
    /\ result' = "Ok"
    /\ rpc' = "done"
    /\ UNCHANGED <<input, name, kind, sinkOk, bytes, out, iters, strres>>

GateIdle ==
    /\ gate = 0 /\ aborted = FALSE /\ outer = <<>> /\ guard = <<>> /\ pc = <<>> /\ op = <<>>
    /\ target = <<>> /\ what = <<>> /\ calls = <<>> /\ emitted = <<>>
    /\ observed = <<>> /\ lastExit = "none"

InitRender ==
    /\ rpc = "new"
    /\ input \in ByteStrings
    /\ kind \in {"Display", "Debug"}
    /\ sinkOk \in BOOLEAN
    /\ name = NoName /\ bytes = <<>> /\ out = <<>> /\ iters = 0
    /\ result = "none" /\ strres = None
    /\ AdjustIdle /\ GateIdle

NextRender ==
    \/ New /\ UNCHANGED adjVars /\ UNCHANGED gateVars
    \/ AsStr /\ UNCHANGED adjVars /\ UNCHANGED gateVars
    \/ FmtEnter /\ UNCHANGED adjVars /\ UNCHANGED gateVars
    \/ LoopBody /\ UNCHANGED adjVars /\ UNCHANGED gateVars
    \/ LoopExit /\ UNCHANGED adjVars /\ UNCHANGED gateVars

SpecRender == InitRender /\ [][NextRender]_vars

\* ------------------------------------------------------- SpecAdjust
Adjust ==
    /\ Len(adjusted) < MaxApply
    /\ adjusted' = Append(adjusted,
                          adjust_ip(IF adjusted = <<>> THEN addr
                                    ELSE adjusted[Len(adjusted)]))
    /\ addr' = addr

InitAdjust ==
    /\ addr \in Address
    /\ adjusted = <<>>
    /\ RenderIdle /\ GateIdle

NextAdjust == Adjust /\ UNCHANGED renVars /\ UNCHANGED gateVars

SpecAdjust == InitAdjust /\ [][NextAdjust]_vars

\* ------------------------------------------------------- SpecGate
Threads == 1 .. NumThreads
NoThread == 0
CallAddrs == 0 .. MaxAddr
NoTarget == [kind |-> "none", val |-> Null]
AddressOf(a) == [kind |-> "Address", val |-> a]      \* a caller's address
FrameAt(a) == [kind |-> "Frame", val |-> a]          \* a Frame whose ip() is a
ip(f) == f.val

IsSync(o) == o \in {"resolve", "resolve_frame", "clear_symbol_cache"}
IsUnsync(o) == o \in {"resolve_unsynchronized", "resolve_frame_unsynchronized"}
IsResolve(o) == o \in {"resolve", "resolve_frame",
                       "resolve_unsynchronized", "resolve_frame_unsynchronized"}

\* the ResolveWhat with the adjustment already applied to it
ResolveWhat_adjusted(tg) == [tg EXCEPT !.val = adjust_ip(@)]

\* ResolveWhat::Address(addr) / ResolveWhat::Frame(frame)
ResolveWhat(tg) == tg

address_or_ip(w) ==
    IF w.kind = "Address" THEN adjust_ip(w.val) ELSE adjust_ip(ip(w))

\* the symbols the backend's tables attribute to a lookup address, innermost
\* first: nothing at null, a function inlined into another at odd addresses,
\* one function at the others
Records(a) ==
    IF a = Null THEN <<>>
    ELSE IF a % 2 = 1 THEN <<10 * a, 10 * a + 1>>
    ELSE <<10 * a>>

\* a callback wrapper that forwards only the first record
Deliver_first_only(obs, rec) == IF obs = <<>> THEN <<rec>> ELSE obs

\* `&mut cb` is handed to resolve_imp as it is: each record reaches cb
Deliver(obs, rec) == Append(obs, rec)

InBackend(t) == pc[t] \in {"backend", "cb_panic", "clearing"}
Finished(t) == pc[t] \in {"ret", "unwind"}

BeginCall(t, o, tg) ==
    /\ op' = [op EXCEPT ![t] = o]
    /\ target' = [target EXCEPT ![t] = tg]
    /\ what' = [what EXCEPT ![t] = NoTarget]
    /\ calls' = [calls EXCEPT ![t] = 0]
    /\ emitted' = [emitted EXCEPT ![t] = <<>>]
    /\ observed' = [observed EXCEPT ![t] = <<>>]
    /\ UNCHANGED lastExit

\* resolve entering resolve_unsynchronized with no guard taken
resolve_nolock(t, a) ==
    /\ ~aborted /\ pc[t] = "idle" /\ ~outer[t]
    /\ BeginCall(t, "resolve", AddressOf(a))
    /\ pc' = [pc EXCEPT ![t] = "unsync"]
    /\ UNCHANGED <<gate, aborted, outer, guard>>

resolve(t, a) ==
    /\ ~aborted /\ pc[t] = "idle" /\ ~outer[t]
    /\ BeginCall(t, "resolve", AddressOf(a))
    /\ pc' = [pc EXCEPT ![t] = "lock"]
    /\ UNCHANGED <<gate, aborted, outer, guard>>

resolve_frame(t, a) ==
    /\ ~aborted /\ pc[t] = "idle" /\ ~outer[t]
    /\ BeginCall(t, "resolve_frame", FrameAt(a))
    /\ pc' = [pc EXCEPT ![t] = "lock"]
    /\ UNCHANGED <<gate, aborted, outer, guard>>

clear_symbol_cache(t) ==
    /\ ~aborted /\ pc[t] = "idle" /\ ~outer[t]
    /\ BeginCall(t, "clear_symbol_cache", NoTarget)
    /\ pc' = [pc EXCEPT ![t] = "lock"]
    /\ UNCHANGED <<gate, aborted, outer, guard>>

\* resolve_unsynchronized that takes the gate itself
resolve_unsynchronized_locking(t, a) ==
    /\ ~aborted /\ pc[t] = "idle" /\ outer[t]
    /\ BeginCall(t, "resolve_unsynchronized", AddressOf(a))
    /\ pc' = [pc EXCEPT ![t] = "lock"]
    /\ UNCHANGED <<gate, aborted, outer, guard>>

\* called by a thread whose outer operation holds the gate
resolve_unsynchronized(t, a) ==
    /\ ~aborted /\ pc[t] = "idle" /\ outer[t]
    /\ BeginCall(t, "resolve_unsynchronized", AddressOf(a))
    /\ pc' = [pc EXCEPT ![t] = "unsync"]
    /\ UNCHANGED <<gate, aborted, outer, guard>>

resolve_frame_unsynchronized(t, a) ==
    /\ ~aborted /\ pc[t] = "idle" /\ outer[t]
    /\ BeginCall(t, "resolve_frame_unsynchronized", FrameAt(a))
    /\ pc' = [pc EXCEPT ![t] = "unsync"]
    /\ UNCHANGED <<gate, aborted, outer, guard>>

\* crate::lock::lock(): blocks until the gate is free, then owns it
lock(t) ==
    /\ ~aborted /\ pc[t] = "lock"
    /\ gate = NoThread
    /\ gate' = t
    /\ guard' = [guard EXCEPT ![t] = TRUE]
    /\ pc' = [pc EXCEPT ![t] =
                 IF op[t] = "clear_symbol_cache" THEN "clear" ELSE "unsync"]
    /\ UNCHANGED <<aborted, outer, op, target, what, calls, emitted, observed, lastExit>>

\* the body of resolve_unsynchronized / resolve_frame_unsynchronized:
\* the one call of resolve_imp
resolve_imp_call(t) ==
    /\ ~aborted /\ pc[t] = "unsync"
    /\ what' = [what EXCEPT ![t] = ResolveWhat(target[t])]
    /\ calls' = [calls EXCEPT ![t] = @ + 1]
    /\ pc' = [pc EXCEPT ![t] = "backend"]
    /\ UNCHANGED <<gate, aborted, outer, guard, op, target, emitted, observed, lastExit>>

\* the backend finds the next symbol for address_or_ip(what) and calls cb,
\* which returns or raises a failure
BackendEmit(t) ==
    /\ ~aborted /\ pc[t] = "backend"
    /\ LET recs == Records(address_or_ip(what[t]))
           n == Len(emitted[t]) + 1
       IN  /\ n <= Len(recs)
           /\ emitted' = [emitted EXCEPT ![t] = Append(@, recs[n])]
           /\ observed' = [observed EXCEPT ![t] = Deliver(@, recs[n])]
    /\ \E panics \in BOOLEAN :
           pc' = [pc EXCEPT ![t] = IF panics THEN "cb_panic" ELSE "backend"]
    /\ UNCHANGED <<gate, aborted, outer, guard, op, target, what, calls, lastExit>>

BackendReturn(t) ==
    /\ ~aborted /\ pc[t] = "backend"
    /\ Len(emitted[t]) = Len(Records(address_or_ip(what[t])))
    /\ pc' = [pc EXCEPT ![t] = "ret"]
    /\ UNCHANGED <<gate, aborted, outer, guard, op, target, what, calls,
                   emitted, observed, lastExit>>

\* a failure raised by cb unwinds out of the backend ...
Unwind(t) ==
    /\ ~aborted /\ pc[t] = "cb_panic"
    /\ pc' = [pc EXCEPT ![t] = "unwind"]
    /\ UNCHANGED <<gate, aborted, outer, guard, op, target, what, calls,
                   emitted, observed, lastExit>>

\* ... or is turned into an abort of the process at the backend's boundary
Abort(t) ==
    /\ ~aborted /\ pc[t] = "cb_panic"
    /\ aborted' = TRUE
    /\ UNCHANGED <<gate, outer, guard, pc, op, target, what, calls,
                   emitted, observed, lastExit>>

clear_symbol_cache_imp_call(t) ==
    /\ ~aborted /\ pc[t] = "clear"
    /\ calls' = [calls EXCEPT ![t] = @ + 1]
    /\ pc' = [pc EXCEPT ![t] = "clearing"]
    /\ UNCHANGED <<gate, aborted, outer, guard, op, target, what, emitted, observed, lastExit>>

\* unsafe fn clear_symbol_cache_imp() {}
clear_symbol_cache_imp(t) ==
    /\ ~aborted /\ pc[t] = "clearing"
    /\ pc' = [pc EXCEPT ![t] = "ret"]
    /\ UNCHANGED <<gate, aborted, outer, guard, op, target, what, calls,
                   emitted, observed, lastExit>>

\* the locals of t's call are gone
Leave(t) ==
    /\ pc' = [pc EXCEPT ![t] = "idle"]
    /\ op' = [op EXCEPT ![t] = "none"]
    /\ target' = [target EXCEPT ![t] = NoTarget]
    /\ what' = [what EXCEPT ![t] = NoTarget]
    /\ calls' = [calls EXCEPT ![t] = 0]
    /\ emitted' = [emitted EXCEPT ![t] = <<>>]
    /\ observed' = [observed EXCEPT ![t] = <<>>]
    /\ lastExit' = IF pc[t] = "ret" THEN "returned" ELSE "unwound"

\* the end of scope that keeps the gate when it is left by unwinding
EndOfScope_leak(t) ==
    /\ ~aborted /\ pc[t] \in {"ret", "unwind"}
    /\ gate' = IF guard[t] /\ pc[t] = "ret" THEN NoThread ELSE gate
    /\ guard' = [guard EXCEPT ![t] = FALSE]
    /\ Leave(t)
    /\ UNCHANGED <<aborted, outer>>

\* the entry point's scope ends, by return or by unwinding: `_guard`, when
\* there is one, is dropped
EndOfScope(t) ==
    /\ ~aborted /\ pc[t] \in {"ret", "unwind"}
    /\ gate' = IF guard[t] THEN NoThread ELSE gate
    /\ guard' = [guard EXCEPT ![t] = FALSE]
    /\ Leave(t)
    /\ UNCHANGED <<aborted, outer>>

\* an outer operation takes the gate once for several inner resolutions
OuterAcquire(t) ==
    /\ ~aborted /\ pc[t] = "idle" /\ ~outer[t]
    /\ gate = NoThread
    /\ gate' = t
    /\ outer' = [outer EXCEPT ![t] = TRUE]
    /\ UNCHANGED <<aborted, guard, pc, op, target, what, calls, emitted, observed, lastExit>>

OuterRelease(t) ==
    /\ ~aborted /\ pc[t] = "idle" /\ outer[t]
    /\ gate' = NoThread
    /\ outer' = [outer EXCEPT ![t] = FALSE]
    /\ UNCHANGED <<aborted, guard, pc, op, target, what, calls, emitted, observed, lastExit>>

InitGate ==
    /\ gate = NoThread
    /\ aborted = FALSE
    /\ outer = [t \in Threads |-> FALSE]
    /\ guard = [t \in Threads |-> FALSE]
    /\ pc = [t \in Threads |-> "idle"]
    /\ op = [t \in Threads |-> "none"]
    /\ target = [t \in Threads |-> NoTarget]
    /\ what = [t \in Threads |-> NoTarget]
    /\ calls = [t \in Threads |-> 0]
    /\ emitted = [t \in Threads |-> <<>>]
    /\ observed = [t \in Threads |-> <<>>]
    /\ lastExit = "none"
    /\ AdjustIdle /\ RenderIdle

\* the steps a thread takes once it is inside a call and owns the gate
Progress(t) ==
    \/ resolve_imp_call(t)
    \/ BackendEmit(t)
    \/ BackendReturn(t)
    \/ Unwind(t)
    \/ Abort(t)
    \/ clear_symbol_cache_imp_call(t)
    \/ clear_symbol_cache_imp(t)
    \/ EndOfScope(t)

NextGate ==
    \/ \E t \in Threads, a \in CallAddrs : resolve(t, a) /\ UNCHANGED adjVars /\ UNCHANGED renVars
    \/ \E t \in Threads, a \in CallAddrs : resolve_frame(t, a) /\ UNCHANGED adjVars /\ UNCHANGED renVars
    \/ \E t \in Threads : clear_symbol_cache(t) /\ UNCHANGED adjVars /\ UNCHANGED renVars
    \/ \E t \in Threads, a \in CallAddrs : resolve_unsynchronized(t, a) /\ UNCHANGED adjVars /\ UNCHANGED renVars
    \/ \E t \in Threads, a \in CallAddrs : resolve_frame_unsynchronized(t, a) /\ UNCHANGED adjVars /\ UNCHANGED renVars
    \/ \E t \in Threads : lock(t) /\ UNCHANGED adjVars /\ UNCHANGED renVars
    \/ \E t \in Threads : resolve_imp_call(t) /\ UNCHANGED adjVars /\ UNCHANGED renVars
    \/ \E t \in Threads : BackendEmit(t) /\ UNCHANGED adjVars /\ UNCHANGED renVars
    \/ \E t \in Threads : BackendReturn(t) /\ UNCHANGED adjVars /\ UNCHANGED renVars
    \/ \E t \in Threads : Unwind(t) /\ UNCHANGED adjVars /\ UNCHANGED renVars
    \/ \E t \in Threads : Abort(t) /\ UNCHANGED adjVars /\ UNCHANGED renVars
    \/ \E t \in Threads : clear_symbol_cache_imp_call(t) /\ UNCHANGED adjVars /\ UNCHANGED renVars
    \/ \E t \in Threads : clear_symbol_cache_imp(t) /\ UNCHANGED adjVars /\ UNCHANGED renVars
    \/ \E t \in Threads : EndOfScope(t) /\ UNCHANGED adjVars /\ UNCHANGED renVars
    \/ \E t \in Threads : OuterAcquire(t) /\ UNCHANGED adjVars /\ UNCHANGED renVars
    \/ \E t \in Threads : OuterRelease(t) /\ UNCHANGED adjVars /\ UNCHANGED renVars

SpecGate == InitGate /\ [][NextGate]_vars

\* running threads keep running, the blocking lock admits every waiter, and
\* an outer operation is finite
FairGate ==
    /\ InitGate
    /\ [][NextGate]_vars
    /\ WF_gateVars(\E t \in Threads : Progress(t))
    /\ SF_gateVars(\E t \in Threads : OuterRelease(t))
    /\ \A t \in Threads : SF_gateVars(lock(t))

\* ======================================================= properties
Raw == name.demangled = None
Rendered == rpc = "done"
Written == Rendered /\ result = "Ok"

RECURSIVE Repeat(_, _)
Repeat(x, k) == IF k = 0 THEN <<>> ELSE <<x>> \o Repeat(x, k - 1)

\* the decoder reports an invalid run of exactly one byte at the start of v
OneByteRun(v) ==
    LET r == from_utf8(v)
    IN  ~r.ok /\ r.valid_up_to = 0 /\ r.error_len = 1

\* input is k one-byte invalid runs followed by valid text
RunsThenText(v, k) ==
    /\ \A i \in 1 .. k : OneByteRun(SubSeq(v, i, Len(v)))
    /\ from_utf8(SubSeq(v, k + 1, Len(v))).ok

\* the rendering that emits the valid prefix before each replacement
RECURSIVE PrefixKeeping(_)
PrefixKeeping(v) ==
    IF v = <<>> THEN <<>>
    ELSE LET r == from_utf8(v)
         IN  IF r.ok THEN Chars(v)
             ELSE Chars(SubSeq(v, 1, r.valid_up_to)) \o <<Replacement>> \o
                  (IF r.error_len # NoLen THEN PrefixKeeping(Advance(v, r)) ELSE <<>>)

\* C4: adjust_ip returns null for null and a - 1 otherwise, never wraps
\* below zero, and adjust_ip(adjust_ip(1)) is null.
AdjustIsNullOrPredecessor ==
    /\ \A i \in 1 .. Len(adjusted) :
          LET x == IF i = 1 THEN addr ELSE adjusted[i - 1]
          IN  /\ adjusted[i] = (IF x = Null THEN Null ELSE x - 1)
              /\ adjusted[i] <= x
              /\ adjusted[i] \in Address
    /\ (addr = 1 /\ Len(adjusted) >= 2) => adjusted[2] = Null

AdjustedOneTwice == addr = 1 /\ Len(adjusted) = 2 /\ adjusted = <<Null, Null>>

\* C7: rendering a name ends, and with Ok when the formatter accepts what is
\* written, for every byte string; every pass of the loop stops or shortens
\* the remaining slice, so an n-byte name takes at most n passes.
RenderingTerminates ==
    /\ iters <= Len(input)
    /\ rpc = "loop" => iters + Len(bytes) <= Len(input)
    /\ rpc \in {"ready", "loop", "exit"} => ENABLED (FmtEnter \/ LoopBody \/ LoopExit)
    /\ (Rendered /\ sinkOk) => result = "Ok"

AllInvalidRendered ==
    /\ Rendered /\ Raw /\ sinkOk /\ result = "Ok"
    /\ Len(input) >= 3 /\ iters = Len(input)
    /\ \A i \in 1 .. Len(input) : input[i] = 255

\* C8: Display of a name that has no demangled form and is k one-byte
\* invalid runs followed by valid text t is k U+FFFD followed by t.
OneReplacementPerRun ==
    (Written /\ Raw /\ kind = "Display") =>
        \A k \in 0 .. Len(input) :
            RunsThenText(input, k) =>
                out = Repeat(Replacement, k) \o Chars(SubSeq(input, k + 1, Len(input)))

TwoRunsThenTextRendered ==
    /\ Written /\ Raw /\ kind = "Display"
    /\ input = <<255, 255, 97, 97>>
    /\ out = <<Replacement, Replacement, 97, 97>>

\* C9: as_bytes returns exactly the bytes the SymbolName was built from,
\* whatever their validity and the outcome of demangling, also after as_str
\* and after rendering.
AsBytesRoundTrip ==
    rpc \in {"ready", "loop", "exit", "done"} => as_bytes(name) = input

InvalidNameKeptAfterUse ==
    /\ Rendered /\ strres # None
    /\ ~from_utf8(input).ok /\ from_utf8(input).valid_up_to > 0
    /\ as_bytes(name) = input

\* C10: on a decode failure the valid prefix before the invalid run is
\* written before the one U+FFFD, so every decodable character of the name
\* appears in the output, in order.
ValidPrefixEmitted ==
    (Written /\ Raw /\ kind = "Display") => out = PrefixKeeping(input)

\* C1: no two backend invocations (resolve_imp, clear_symbol_cache_imp) are
\* in progress at once; a thread is inside the backend only while it holds
\* the gate.
BackendMutualExclusion ==
    /\ \A t \in Threads : InBackend(t) => gate = t
    /\ \A t, u \in Threads : (InBackend(t) /\ InBackend(u)) => t = u

BackendBusyWhileOtherWaits ==
    \E t, u \in Threads :
        /\ pc[t] = "backend" /\ op[t] = "resolve" /\ Len(emitted[t]) = 1
        /\ pc[u] = "lock" /\ op[u] \in {"resolve_frame", "clear_symbol_cache"}

BackendHandedAdjustedTarget ==
    \A t \in Threads :
        (IsResolve(op[t]) /\ (InBackend(t) \/ Finished(t))) =>
            /\ calls[t] = 1
            /\ what[t].val = adjust_ip(target[t].val)

\* C3 as amended: one backend invocation per call; the target handed to it
\* is the caller's address or frame unchanged, and address_or_ip of that
\* target is the adjusted address (of the address, or of the frame's ip).
BackendHandedCallerTarget ==
    \A t \in Threads :
        /\ (IsResolve(op[t]) /\ pc[t] \in {"lock", "unsync"}) => calls[t] = 0
        /\ (IsResolve(op[t]) /\ (InBackend(t) \/ Finished(t))) =>
              /\ calls[t] = 1
              /\ what[t] = target[t]
              /\ what[t].kind = (IF op[t] \in {"resolve", "resolve_unsynchronized"}
                                 THEN "Address" ELSE "Frame")
              /\ address_or_ip(what[t]) =
                    (IF target[t].val = Null THEN Null ELSE target[t].val - 1)

FrameHandedUnadjusted ==
    \E t \in Threads :
        /\ pc[t] = "ret" /\ op[t] = "resolve_frame" /\ calls[t] = 1
        /\ target[t] = FrameAt(2) /\ what[t] = FrameAt(2)
        /\ address_or_ip(what[t]) = 1

\* what the synchronized entry point delivers for a target: the records of
\* the one backend call it makes under the gate
SynchronizedDelivers(tg) == Records(address_or_ip(ResolveWhat(tg)))

\* C5: an unsynchronized resolution made while the caller holds the gate
\* never waits for the gate and is never blocked, and hands the callback the
\* records the synchronized entry point hands it for the same target.
UnsynchronizedEquivalent ==
    \A t \in Threads :
        /\ IsUnsync(op[t]) =>
              /\ pc[t] # "lock"
              /\ ~guard[t]
              /\ ~aborted => (gate = t /\ ENABLED Progress(t))
        /\ (IsResolve(op[t]) /\ pc[t] = "ret") =>
              observed[t] = SynchronizedDelivers(target[t])

UnsynchronizedDeliveredPair ==
    \E t, u \in Threads :
        /\ pc[t] = "ret" /\ op[t] = "resolve_unsynchronized" /\ outer[t]
        /\ target[t] = AddressOf(2) /\ observed[t] = <<10, 11>>
        /\ pc[u] = "lock"

\* C6: the callback sees exactly the records the backend emits for the
\* target, in the backend's order, none added, dropped or repeated; when
\* nothing resolves it is not called and the call returns normally.
CallbackSeesBackendRecords ==
    \A t \in Threads :
        IsResolve(op[t]) =>
            /\ observed[t] = emitted[t]
            /\ pc[t] = "ret" => emitted[t] = Records(address_or_ip(what[t]))
            /\ (calls[t] = 1 /\ Records(address_or_ip(what[t])) = <<>>) =>
                   (observed[t] = <<>> /\ pc[t] \in {"backend", "ret"})

InlinedPairObserved ==
    \E t \in Threads :
        /\ pc[t] = "ret" /\ op[t] = "resolve_frame"
        /\ emitted[t] = <<10, 11>> /\ observed[t] = <<10, 11>>

====
